---- MODULE Spec2Model ----
(***************************************************************************)
(* Syllogix: the deductive mood-matching engine (framework/engines/        *)
(* deductive.py) and the data types it works on (framework/models.py).     *)
(*                                                                         *)
(* A collaborator builds a ReasoningStep, possibly holding a Syllogism of  *)
(* two Propositions, and hands it to DeductiveEngine.validate, which       *)
(* updates the step in place.                                              *)
(***************************************************************************)
EXTENDS Integers, Sequences, FiniteSets, TLC

VARIABLES
    step,     \* the ReasoningStep handed to DeductiveEngine.validate
    calls,    \* number of validate calls made on the step so far
    tried,    \* number of validator callables run by the last validate call
    twin,     \* a second, separate step built from the same premises (or None)
    twin_calls, \* number of validate calls made on the twin
    chain,    \* ReasoningChain.steps
    added,    \* the steps handed to add_step so far, in call order
    query,    \* the subject of the last get_proven_premise call (NoCall if none)
    returned, \* what the last get_proven_premise call returned
    shown,    \* the Proposition handed to str()
    rendered, \* what str(shown) produced (NotRendered before the call)
    pc,       \* where LogicFramework.reason stands: the stage it is about to run
    frame,    \* the local variables of the running reason() call
    cache,    \* LLMResponseCache.cache: key -> response
    timestamps, \* LLMResponseCache.timestamps: key -> time of the set call
    clock,    \* time.time(), in ticks
    stored,   \* the set calls made so far, in order (history, never evicted)
    got       \* the arguments, result and time of the last get call

engineVars == <<step, calls, tried, twin, twin_calls>>
chainVars == <<chain, added, query, returned>>
renderVars == <<shown, rendered>>
reasonVars == <<pc, frame>>
cacheVars == <<cache, timestamps, clock, stored, got>>
vars == <<step, calls, tried, twin, twin_calls, chain, added, query, returned,
          shown, rendered, pc, frame, cache, timestamps, clock, stored, got>>

(***************************************************************************)
(* Bounds of the model.                                                    *)
(***************************************************************************)
NTerms == 4        \* number of distinct term labels the premises draw from
MaxCalls == 2      \* number of validate calls made on one step
MaxSteps == 2      \* number of steps added to one chain
USize == 2         \* size of the universe terms are interpreted over
MaxSets == 3       \* number of set calls made on one cache
MaxClock == 2      \* last instant of the clock the cache reads

(***************************************************************************)
(* Python's None.  Optional records (Proposition | None, Syllogism | None, *)
(* dict | None) use the record None; the optional string mood uses NoMood, *)
(* a string that is no mood name.                                          *)
(***************************************************************************)
None == [absent |-> TRUE]
NoMood == "<None>"

\* None where a str is expected; strings that are inspected character by
\* character are sequences of characters, and NoneStr is none of them
NoneStr == <<"<None>">>

TermPool == <<"M", "S", "P", "X", "Y", "Z">>
Terms == {TermPool[i] : i \in 1..NTerms}

\* models.py: Quantifier
Quantifier == {"All", "No", "Some", "Some...not", "Statistical"}

\* models.py: Proposition(quantifier, subject, predicate) with the defaults
\* is_negated=False, stat_value=None
Proposition(q, s, p) ==
    [quantifier |-> q, subject |-> s, predicate |-> p,
     is_negated |-> FALSE, stat_value |-> None]

\* A Statistical proposition as the formalizer supplies it, with its payload.
StatisticalProposition(s, p) ==
    [quantifier |-> "Statistical", subject |-> s, predicate |-> p,
     is_negated |-> FALSE, stat_value |-> [type |-> "percentage", value |-> 80]]

\* models.py: Syllogism
Syllogism(major, minor, concl) ==
    [major_premise |-> major, minor_premise |-> minor, conclusion |-> concl]

\* the confidence a successful validation writes: 1.0, in percent
FullConfidence == 100

(***************************************************************************)
(* str.strip() and str.lower() on a string given as its characters.        *)
(***************************************************************************)
Whitespace == {" ", "\t", "\n", "\r"}
UpperCase == <<"A", "B", "C", "D", "E", "F", "G", "H", "I", "J", "K", "L", "M",
               "N", "O", "P", "Q", "R", "S", "T", "U", "V", "W", "X", "Y", "Z">>
LowerCase == <<"a", "b", "c", "d", "e", "f", "g", "h", "i", "j", "k", "l", "m",
               "n", "o", "p", "q", "r", "s", "t", "u", "v", "w", "x", "y", "z">>

lower_char(c) ==
    IF \E i \in 1..Len(UpperCase) : UpperCase[i] = c
    THEN LowerCase[CHOOSE i \in 1..Len(UpperCase) : UpperCase[i] = c]
    ELSE c

lower(s) == [i \in 1..Len(s) |-> lower_char(s[i])]

RECURSIVE lstrip(_)
lstrip(s) == IF s # << >> /\ Head(s) \in Whitespace THEN lstrip(Tail(s)) ELSE s

RECURSIVE rstrip(_)
rstrip(s) ==
    IF s # << >> /\ s[Len(s)] \in Whitespace THEN rstrip(SubSeq(s, 1, Len(s) - 1)) ELSE s

strip(s) == rstrip(lstrip(s))

(***************************************************************************)
(* The mood validators.  Each takes (major, minor) and returns the         *)
(* conclusion Proposition, or None.                                        *)
(***************************************************************************)

\* --- FIGURE 1: M-P, S-M ---

\* Barbara without the test of the major premise's quantifier
_validate_barbara_any_major(major, minor) ==
    IF /\ minor.quantifier = "All"
       /\ major.subject = minor.predicate
    THEN Proposition("All", minor.subject, major.predicate)
    ELSE None

_validate_barbara_casefold(major, minor) ==
    IF /\ major.quantifier = "All"
       /\ minor.quantifier = "All"
       /\ lower(strip(major.subject)) = lower(strip(minor.predicate))
    THEN Proposition("All", minor.subject, major.predicate)
    ELSE None

_validate_barbara(major, minor) ==
    IF /\ major.quantifier = "All"
       /\ minor.quantifier = "All"
       /\ major.subject = minor.predicate
    THEN Proposition("All", minor.subject, major.predicate)
    ELSE None

\* Celarent concluding about the middle term
_validate_celarent_keeps_middle(major, minor) ==
    IF /\ major.quantifier = "No"
       /\ minor.quantifier = "All"
       /\ major.subject = minor.predicate
    THEN Proposition("No", minor.predicate, major.predicate)
    ELSE None

_validate_celarent(major, minor) ==
    IF /\ major.quantifier = "No"
       /\ minor.quantifier = "All"
       /\ major.subject = minor.predicate
    THEN Proposition("No", minor.subject, major.predicate)
    ELSE None

\* Darii without the test of the minor premise's quantifier
_validate_darii_any_minor(major, minor) ==
    IF /\ major.quantifier = "All"
       /\ major.subject = minor.predicate
    THEN Proposition("Some", minor.subject, major.predicate)
    ELSE None

_validate_darii(major, minor) ==
    IF /\ major.quantifier = "All"
       /\ minor.quantifier = "Some"
       /\ major.subject = minor.predicate
    THEN Proposition("Some", minor.subject, major.predicate)
    ELSE None

\* Ferio drawing an affirmative conclusion from its negative major premise
_validate_ferio_affirmative(major, minor) ==
    IF /\ major.quantifier = "No"
       /\ minor.quantifier = "Some"
       /\ major.subject = minor.predicate
    THEN Proposition("Some", minor.subject, major.predicate)
    ELSE None

_validate_ferio(major, minor) ==
    IF /\ major.quantifier = "No"
       /\ minor.quantifier = "Some"
       /\ major.subject = minor.predicate
    THEN Proposition("Some...not", minor.subject, major.predicate)
    ELSE None

\* --- FIGURE 2: P-M, S-M ---

\* Cesare with the conclusion's terms taken the wrong way round
_validate_cesare_swapped(major, minor) ==
    IF /\ major.quantifier = "No"
       /\ minor.quantifier = "All"
       /\ major.predicate = minor.predicate
    THEN Proposition("No", major.subject, minor.subject)
    ELSE None

_validate_cesare(major, minor) ==
    IF /\ major.quantifier = "No"
       /\ minor.quantifier = "All"
       /\ major.predicate = minor.predicate
    THEN Proposition("No", minor.subject, major.subject)
    ELSE None

_validate_camestres(major, minor) ==
    IF /\ major.quantifier = "All"
       /\ minor.quantifier = "No"
       /\ major.predicate = minor.predicate
    THEN Proposition("No", minor.subject, major.subject)
    ELSE None

_validate_festino(major, minor) ==
    IF /\ major.quantifier = "No"
       /\ minor.quantifier = "Some"
       /\ major.predicate = minor.predicate
    THEN Proposition("Some...not", minor.subject, major.subject)
    ELSE None

_validate_baroco(major, minor) ==
    IF /\ major.quantifier = "All"
       /\ minor.quantifier = "Some...not"
       /\ major.predicate = minor.predicate
    THEN Proposition("Some...not", minor.subject, major.subject)
    ELSE None

\* --- FIGURE 3: M-P, M-S ---

_validate_darapti(major, minor) ==
    IF /\ major.quantifier = "All"
       /\ minor.quantifier = "All"
       /\ major.subject = minor.subject
    THEN Proposition("Some", minor.predicate, major.predicate)
    ELSE None

_validate_felapton(major, minor) ==
    IF /\ major.quantifier = "No"
       /\ minor.quantifier = "All"
       /\ major.subject = minor.subject
    THEN Proposition("Some...not", minor.predicate, major.predicate)
    ELSE None

_validate_disamis(major, minor) ==
    IF /\ major.quantifier = "Some"
       /\ minor.quantifier = "All"
       /\ major.subject = minor.subject
    THEN Proposition("Some", minor.predicate, major.predicate)
    ELSE None

_validate_datisi(major, minor) ==
    IF /\ major.quantifier = "All"
       /\ minor.quantifier = "Some"
       /\ major.subject = minor.subject
    THEN Proposition("Some", minor.predicate, major.predicate)
    ELSE None

_validate_bocardo(major, minor) ==
    IF /\ major.quantifier = "Some...not"
       /\ minor.quantifier = "All"
       /\ major.subject = minor.subject
    THEN Proposition("Some...not", minor.predicate, major.predicate)
    ELSE None

_validate_ferison(major, minor) ==
    IF /\ major.quantifier = "No"
       /\ minor.quantifier = "Some"
       /\ major.subject = minor.subject
    THEN Proposition("Some...not", minor.predicate, major.predicate)
    ELSE None

\* --- FIGURE 4: P-M, M-S ---

_validate_baralipton(major, minor) ==
    IF /\ major.quantifier = "All"
       /\ minor.quantifier = "All"
       /\ major.predicate = minor.subject
    THEN Proposition("Some", minor.predicate, major.subject)
    ELSE None

_validate_celantes(major, minor) ==
    IF /\ major.quantifier = "No"
       /\ minor.quantifier = "All"
       /\ major.predicate = minor.subject
    THEN Proposition("No", minor.predicate, major.subject)
    ELSE None

_validate_dabitis(major, minor) ==
    IF /\ major.quantifier = "Some"
       /\ minor.quantifier = "All"
       /\ major.predicate = minor.subject
    THEN Proposition("Some", minor.predicate, major.subject)
    ELSE None

_validate_fapesmo(major, minor) ==
    IF /\ major.quantifier = "No"
       /\ minor.quantifier = "Some"
       /\ major.predicate = minor.subject
    THEN Proposition("Some...not", minor.predicate, major.subject)
    ELSE None

(***************************************************************************)
(* DeductiveEngine.__init__: the mood_validators dict.  A Python dict      *)
(* iterates in insertion order, so the dict is its sequence of keys plus   *)
(* the lookup key -> callable.                                             *)
(***************************************************************************)
\* the dict with its last entry left out
mood_validators_short ==
    << "Barbara", "Celarent", "Darii", "Ferio",
       "Cesare", "Camestres", "Festino", "Baroco",
       "Darapti", "Felapton", "Disamis", "Datisi", "Bocardo", "Ferison",
       "Baralipton", "Celantes", "Dabitis" >>

mood_validators ==
    << "Barbara", "Celarent", "Darii", "Ferio",
       "Cesare", "Camestres", "Festino", "Baroco",
       "Darapti", "Felapton", "Disamis", "Datisi", "Bocardo", "Ferison",
       "Baralipton", "Celantes", "Dabitis", "Fapesmo" >>

validator_func(mood, major, minor) ==
    CASE mood = "Barbara"    -> _validate_barbara(major, minor)
      [] mood = "Celarent"   -> _validate_celarent(major, minor)
      [] mood = "Darii"      -> _validate_darii(major, minor)
      [] mood = "Ferio"      -> _validate_ferio(major, minor)
      [] mood = "Cesare"     -> _validate_cesare(major, minor)
      [] mood = "Camestres"  -> _validate_camestres(major, minor)
      [] mood = "Festino"    -> _validate_festino(major, minor)
      [] mood = "Baroco"     -> _validate_baroco(major, minor)
      [] mood = "Darapti"    -> _validate_darapti(major, minor)
      [] mood = "Felapton"   -> _validate_felapton(major, minor)
      [] mood = "Disamis"    -> _validate_disamis(major, minor)
      [] mood = "Datisi"     -> _validate_datisi(major, minor)
      [] mood = "Bocardo"    -> _validate_bocardo(major, minor)
      [] mood = "Ferison"    -> _validate_ferison(major, minor)
      [] mood = "Baralipton" -> _validate_baralipton(major, minor)
      [] mood = "Celantes"   -> _validate_celantes(major, minor)
      [] mood = "Dabitis"    -> _validate_dabitis(major, minor)
      [] mood = "Fapesmo"    -> _validate_fapesmo(major, minor)

(***************************************************************************)
(* DeductiveEngine.validate, lines 88-96: the loop over the dict.  Returns *)
(* the first mood whose validator yields a conclusion, that conclusion,    *)
(* and the number of validators run; mood and conclusion are absent when   *)
(* the loop runs to its end.                                               *)
(***************************************************************************)
\* the loop without its early return: the last matching validator wins
try_validators_no_return(major, minor, i) ==
    LET matching == {j \in i..Len(mood_validators) :
                        validator_func(mood_validators[j], major, minor) # None}
    IN  IF matching = {}
        THEN [mood |-> NoMood, conclusion |-> None, tried |-> Len(mood_validators)]
        ELSE LET last == CHOOSE j \in matching : \A k \in matching : k <= j
             IN  [mood |-> mood_validators[last],
                  conclusion |-> validator_func(mood_validators[last], major, minor),
                  tried |-> Len(mood_validators)]

RECURSIVE try_validators(_, _, _)
try_validators(major, minor, i) ==
    IF i > Len(mood_validators)
    THEN [mood |-> NoMood, conclusion |-> None, tried |-> i - 1]
    ELSE LET conclusion == validator_func(mood_validators[i], major, minor)
         IN  IF conclusion # None
             THEN [mood |-> mood_validators[i], conclusion |-> conclusion,
                   tried |-> i]
             ELSE try_validators(major, minor, i + 1)

\* the text validate appends to step.summary: a space, then the marker
MissingPremisesMarker == "[EngineError: Missing one or more premises]"
NoSyllogismMarker == "[EngineError: Premises do not form a valid known syllogism]"

major_of(s) == IF s.syllogism # None THEN s.syllogism.major_premise ELSE None
minor_of(s) == IF s.syllogism # None THEN s.syllogism.minor_premise ELSE None

\* validate, leaving is_valid as it was when no mood matches
validate_no_match_keeps_valid(s) ==
    LET major == major_of(s)
        minor == minor_of(s)
    IN  IF major = None \/ minor = None
        THEN [s EXCEPT !.is_valid = FALSE,
                       !.summary = @ \o <<" ", MissingPremisesMarker>>]
        ELSE LET r == try_validators(major, minor, 1)
             IN  IF r.conclusion # None
                 THEN [s EXCEPT !.is_valid = TRUE,
                                !.syllogism.conclusion = r.conclusion,
                                !.mood = r.mood,
                                !.confidence = FullConfidence]
                 ELSE [s EXCEPT !.summary = @ \o <<" ", NoSyllogismMarker>>]

\* validate, clearing the mood when a premise is missing
validate_missing_resets_mood(s) ==
    LET major == major_of(s)
        minor == minor_of(s)
    IN  IF major = None \/ minor = None
        THEN [s EXCEPT !.is_valid = FALSE, !.mood = NoMood,
                       !.summary = @ \o <<" ", MissingPremisesMarker>>]
        ELSE LET r == try_validators(major, minor, 1)
             IN  IF r.conclusion # None
                 THEN [s EXCEPT !.is_valid = TRUE,
                                !.syllogism.conclusion = r.conclusion,
                                !.mood = r.mood,
                                !.confidence = FullConfidence]
                 ELSE [s EXCEPT !.is_valid = FALSE,
                                !.summary = @ \o <<" ", NoSyllogismMarker>>]

\* validate, writing the marker over the summary instead of appending it
validate_replaces_summary(s) ==
    LET major == major_of(s)
        minor == minor_of(s)
    IN  IF major = None \/ minor = None
        THEN [s EXCEPT !.is_valid = FALSE,
                       !.summary = <<" ", MissingPremisesMarker>>]
        ELSE LET r == try_validators(major, minor, 1)
             IN  IF r.conclusion # None
                 THEN [s EXCEPT !.is_valid = TRUE,
                                !.syllogism.conclusion = r.conclusion,
                                !.mood = r.mood,
                                !.confidence = FullConfidence]
                 ELSE [s EXCEPT !.is_valid = FALSE,
                                !.summary = <<" ", NoSyllogismMarker>>]

\* validate, not writing the confidence on success
validate_keeps_confidence(s) ==
    LET major == major_of(s)
        minor == minor_of(s)
    IN  IF major = None \/ minor = None
        THEN [s EXCEPT !.is_valid = FALSE,
                       !.summary = @ \o <<" ", MissingPremisesMarker>>]
        ELSE LET r == try_validators(major, minor, 1)
             IN  IF r.conclusion # None
                 THEN [s EXCEPT !.is_valid = TRUE,
                                !.syllogism.conclusion = r.conclusion,
                                !.mood = r.mood]
                 ELSE [s EXCEPT !.is_valid = FALSE,
                                !.summary = @ \o <<" ", NoSyllogismMarker>>]

\* validate, writing the conclusion only where none is held
validate_keeps_conclusion(s) ==
    LET major == major_of(s)
        minor == minor_of(s)
    IN  IF major = None \/ minor = None
        THEN [s EXCEPT !.is_valid = FALSE,
                       !.summary = @ \o <<" ", MissingPremisesMarker>>]
        ELSE LET r == try_validators(major, minor, 1)
             IN  IF r.conclusion # None
                 THEN [s EXCEPT !.is_valid = TRUE,
                                !.syllogism.conclusion =
                                    IF @ = None THEN r.conclusion ELSE @,
                                !.mood = r.mood,
                                !.confidence = FullConfidence]
                 ELSE [s EXCEPT !.is_valid = FALSE,
                                !.summary = @ \o <<" ", NoSyllogismMarker>>]

\* DeductiveEngine.validate: the step as the call leaves it
validate(s) ==
    LET major == major_of(s)
        minor == minor_of(s)
    IN  IF major = None \/ minor = None
        THEN [s EXCEPT !.is_valid = FALSE,
                       !.summary = @ \o <<" ", MissingPremisesMarker>>]
        ELSE LET r == try_validators(major, minor, 1)
             IN  IF r.conclusion # None
                 THEN [s EXCEPT !.is_valid = TRUE,
                                !.syllogism.conclusion = r.conclusion,
                                !.mood = r.mood,
                                !.confidence = FullConfidence]
                 ELSE [s EXCEPT !.is_valid = FALSE,
                                !.summary = @ \o <<" ", NoSyllogismMarker>>]

\* the number of validator callables one validate call runs on the step
validators_run(s) ==
    IF major_of(s) = None \/ minor_of(s) = None
    THEN 0
    ELSE try_validators(major_of(s), minor_of(s), 1).tried

(***************************************************************************)
(* The steps a collaborator hands over.                                    *)
(***************************************************************************)
Propositions ==
    {Proposition(q, s, p) : q \in Quantifier \ {"Statistical"}, s \in Terms, p \in Terms}
    \cup {StatisticalProposition(s, p) : s \in Terms, p \in Terms}

\* values a step may carry before validate is called on it
StaleMood == "StatisticalSyllogism"
StaleConclusion == StatisticalProposition(TermPool[1], TermPool[2])
\* the verdict fields as built (the dataclass defaults) or as left by earlier use
PriorVerdicts ==
    {[mood |-> NoMood, conclusion |-> None],
     [mood |-> StaleMood, conclusion |-> StaleConclusion]}
PriorNotes ==
    {[confidence |-> FullConfidence, summary |-> << >>],
     [confidence |-> FullConfidence \div 2, summary |-> <<"note">>]}

\* models.py: ReasoningStep
ReasoningStep(syllogism, mood, is_valid, confidence, summary) ==
    [step_id |-> 1, question |-> "Test", reasoning_type |-> "Deductive",
     rag_sources |-> << >>, syllogism |-> syllogism, mood |-> mood,
     is_valid |-> is_valid, confidence |-> confidence, summary |-> summary]

Steps ==
    {ReasoningStep(Syllogism(a, b, w.conclusion), w.mood, v, n.confidence, n.summary) :
        a \in Propositions \cup {None}, b \in Propositions \cup {None},
        w \in PriorVerdicts, v \in BOOLEAN, n \in PriorNotes}
    \cup
    {ReasoningStep(None, w.mood, v, n.confidence, n.summary) :
        w \in PriorVerdicts, v \in BOOLEAN, n \in PriorNotes}

\* no chain in use, nothing rendered
NoCall == <<"<no call>">>
NotRendered == [outcome |-> "not called", text |-> ""]
ChainIdle == chain = << >> /\ added = << >> /\ query = NoCall /\ returned = None
RenderIdle == shown = None /\ rendered = NotRendered

\* no reason() call running, and a cache nobody has used
NoGet == [args |-> << >>, value |-> None, at |-> 0, after |-> 0]
ReasonIdle == pc = "idle" /\ frame = None
CacheIdle ==
    /\ cache = << >>
    /\ timestamps = << >>
    /\ clock = 0
    /\ stored = << >>
    /\ got = NoGet

Init ==
    /\ step \in Steps
    /\ calls = 0
    /\ tried = 0
    /\ twin = None
    /\ twin_calls = 0
    /\ ChainIdle
    /\ RenderIdle
    /\ ReasonIdle
    /\ CacheIdle

\* engine.validate(step)
Validate ==
    /\ calls < MaxCalls
    /\ step' = validate(step)
    /\ tried' = validators_run(step)
    /\ calls' = calls + 1
    /\ UNCHANGED <<twin, twin_calls>>
    /\ UNCHANGED <<chainVars, renderVars, reasonVars, cacheVars>>

Next == Validate

Spec == Init /\ [][Next]_vars

(***************************************************************************)
(* One step validated repeatedly while its holder assigns other premises   *)
(* to the fields of its Syllogism (a plain mutable dataclass) in between.  *)
(***************************************************************************)
ReplacementPremises ==
    {None,
     Proposition("All", "M", "P"), Proposition("All", "S", "M"),
     Proposition("No", "S", "M"), Proposition("Some", "P", "S")}

\* a step as built: the dataclass defaults and a syllogism without conclusion
InitReplace ==
    /\ step \in {ReasoningStep(Syllogism(a, b, None), NoMood, FALSE, FullConfidence, << >>) :
                    a \in ReplacementPremises, b \in ReplacementPremises}
    /\ calls = 0
    /\ tried = 0
    /\ twin = None
    /\ twin_calls = 0
    /\ ChainIdle
    /\ RenderIdle
    /\ ReasonIdle
    /\ CacheIdle

\* step.syllogism.major_premise = a; step.syllogism.minor_premise = b
ReplacePremises ==
    \E a \in ReplacementPremises, b \in ReplacementPremises :
        /\ <<a, b>> # <<major_of(step), minor_of(step)>>
        /\ step' = [step EXCEPT !.syllogism.major_premise = a,
                                !.syllogism.minor_premise = b]
        /\ UNCHANGED <<calls, tried, twin, twin_calls>>
        /\ UNCHANGED <<chainVars, renderVars, reasonVars, cacheVars>>

NextReplace == Validate \/ ReplacePremises

SpecReplace == InitReplace /\ [][NextReplace]_vars

(***************************************************************************)
(* Two separate steps over equal premises: the twin is a freshly built     *)
(* ReasoningStep (all defaults) whose syllogism holds the same premises as *)
(* the step's and no conclusion.                                           *)
(***************************************************************************)
FreshTwin(s) ==
    ReasoningStep(IF s.syllogism = None THEN None
                  ELSE Syllogism(s.syllogism.major_premise,
                                 s.syllogism.minor_premise, None),
                  NoMood, FALSE, FullConfidence, << >>)

InitTwin ==
    /\ step \in Steps
    /\ calls = 0
    /\ tried = 0
    /\ twin = FreshTwin(step)
    /\ twin_calls = 0
    /\ ChainIdle
    /\ RenderIdle
    /\ ReasonIdle
    /\ CacheIdle

\* engine.validate(twin)
ValidateTwin ==
    /\ twin_calls < 1
    /\ twin' = validate(twin)
    /\ twin_calls' = twin_calls + 1
    /\ UNCHANGED <<step, calls, tried>>
    /\ UNCHANGED <<chainVars, renderVars, reasonVars, cacheVars>>

NextTwin == Validate \/ ValidateTwin

SpecTwin == InitTwin /\ [][NextTwin]_vars

(***************************************************************************)
(* Premises whose terms differ only by letter case or surrounding          *)
(* whitespace, as strings of characters, on freshly built steps.           *)
(***************************************************************************)
CaseTerms == {<<"M">>, <<"m">>, <<"M", " ">>, <<"S">>, <<"P">>}

CasePropositions ==
    {Proposition(q, s, p) : q \in Quantifier \ {"Statistical"},
                            s \in CaseTerms, p \in CaseTerms}

CaseSteps ==
    {ReasoningStep(Syllogism(a, b, None), NoMood, FALSE, FullConfidence, << >>) :
        a \in CasePropositions, b \in CasePropositions}

InitCase ==
    /\ step \in CaseSteps
    /\ calls = 0
    /\ tried = 0
    /\ twin = None
    /\ twin_calls = 0
    /\ ChainIdle
    /\ RenderIdle
    /\ ReasonIdle
    /\ CacheIdle

SpecCase == InitCase /\ [][Next]_vars

(***************************************************************************)
(* ReasoningChain: add_step and get_proven_premise.                        *)
(*                                                                         *)
(* get_proven_premise returns None, or a Proposition object: either the    *)
(* conclusion object owned by the step at position `owner` of the chain,   *)
(* or a newly constructed object (owner 0).                                *)
(***************************************************************************)
Existing(i, concl) == [owner |-> i, value |-> concl]
Constructed(p) == [owner |-> 0, value |-> p]

\* ReasoningChain.add_step
add_step_front(steps, s) == <<s>> \o steps

add_step(steps, s) == Append(steps, s)

\* the positions of self.steps in the order reversed(self.steps) yields them
reversed_oldest_first(steps) == [k \in 1..Len(steps) |-> k]

reversed(steps) == [k \in 1..Len(steps) |-> Len(steps) - k + 1]

\* line 139: step.is_valid and step.syllogism and step.syllogism.conclusion
qualifies_ignoring_validity(s) ==
    s.syllogism # None /\ s.syllogism.conclusion # None

qualifies(s) ==
    s.is_valid /\ s.syllogism # None /\ s.syllogism.conclusion # None

\* line 144: concl.subject and concl.subject.strip().lower() == target
subject_matches_exact(concl, target) ==
    concl.subject # << >> /\ concl.subject = target

subject_matches(concl, target) ==
    concl.subject # << >> /\ lower(strip(concl.subject)) = target

\* line 147: concl.predicate and concl.predicate.strip().lower() == target
predicate_matches(concl, target) ==
    concl.predicate # << >> /\ lower(strip(concl.predicate)) = target

\* lines 148-166: the converse of a conclusion whose predicate matched, as a
\* new Proposition, or None where the quantifier allows no conversion
convert_all_too(concl, subject) ==
    IF concl.quantifier \in {"No", "Some", "All"}
    THEN Constructed(Proposition(concl.quantifier, subject, concl.subject))
    ELSE None

convert_with_predicate(concl, subject) ==
    IF concl.quantifier \in {"No", "Some"}
    THEN Constructed(Proposition(concl.quantifier, concl.predicate, concl.subject))
    ELSE None

convert(concl, subject) ==
    IF concl.quantifier = "No"
    THEN Constructed(Proposition("No", subject, concl.subject))
    ELSE IF concl.quantifier = "Some"
    THEN Constructed(Proposition("Some", subject, concl.subject))
    ELSE None

\* lines 138-168: the loop, over the positions still to visit
RECURSIVE scan_steps(_, _, _, _)
scan_steps(steps, order, subject, target) ==
    IF order = << >> THEN None
    ELSE LET i == Head(order)
             s == steps[i]
         IN  IF ~qualifies(s)
             THEN scan_steps(steps, Tail(order), subject, target)
             ELSE LET concl == s.syllogism.conclusion
                  IN  IF subject_matches(concl, target)
                      THEN Existing(i, concl)
                      ELSE IF predicate_matches(concl, target)
                              /\ convert(concl, subject) # None
                           THEN convert(concl, subject)
                           ELSE scan_steps(steps, Tail(order), subject, target)

\* a lookup in two passes: subject matches anywhere in the chain first
RECURSIVE scan_subjects(_, _, _)
scan_subjects(steps, order, target) ==
    IF order = << >> THEN None
    ELSE LET i == Head(order)
         IN  IF qualifies(steps[i])
                /\ subject_matches(steps[i].syllogism.conclusion, target)
             THEN Existing(i, steps[i].syllogism.conclusion)
             ELSE scan_subjects(steps, Tail(order), target)

get_proven_premise_subject_first(steps, subject) ==
    [steps |-> steps,
     returned |->
        IF subject = NoneStr THEN None
        ELSE IF scan_subjects(steps, reversed(steps), lower(strip(subject))) # None
        THEN scan_subjects(steps, reversed(steps), lower(strip(subject)))
        ELSE scan_steps(steps, reversed(steps), subject, lower(strip(subject)))]

\* ReasoningChain.get_proven_premise: the steps as the call leaves them and
\* the value it returns
get_proven_premise(steps, subject) ==
    [steps |-> steps,
     returned |-> IF subject = NoneStr THEN None
                  ELSE scan_steps(steps, reversed(steps), subject, lower(strip(subject)))]

\* terms of earlier conclusions: "A " , "b", "a", the empty string (which
\* LogicFramework.reason writes for a missing term) and a blank string
ChainTermPairs ==
    { << <<"A", " ">>, <<"b">> >>,  << <<"b">>, <<"A", " ">> >>,
      << <<"A", " ">>, <<"a">> >>,
      << << >>, <<"b">> >>,  << <<"b">>, << >> >>,
      << <<" ">>, <<"b">> >> }

ChainPropositions ==
    {Proposition(q, sp[1], sp[2]) : q \in Quantifier, sp \in ChainTermPairs}

\* a step as a collaborator adds it: with a conclusion (valid or not), with a
\* syllogism lacking one, or with no syllogism
ChainSteps ==
    {ReasoningStep(Syllogism(None, None, c), NoMood, v, FullConfidence, << >>) :
        c \in ChainPropositions, v \in BOOLEAN}
    \cup {ReasoningStep(Syllogism(None, None, None), NoMood, TRUE, FullConfidence, << >>),
          ReasoningStep(None, NoMood, TRUE, FullConfidence, << >>)}

QuerySubjects == {NoneStr, << >>, <<" ">>, <<"a">>, <<" ", "B">>}

EngineIdle ==
    /\ step = ReasoningStep(None, NoMood, FALSE, FullConfidence, << >>)
    /\ calls = 0
    /\ tried = 0
    /\ twin = None
    /\ twin_calls = 0

\* ReasoningChain(main_query=...)
InitChain ==
    /\ chain = << >>
    /\ added = << >>
    /\ query = NoCall
    /\ returned = None
    /\ EngineIdle
    /\ RenderIdle
    /\ ReasonIdle
    /\ CacheIdle

\* chain.add_step(s)
AddStep ==
    \E s \in ChainSteps :
        /\ Len(added) < MaxSteps
        /\ chain' = add_step(chain, s)
        /\ added' = Append(added, s)
        /\ query' = NoCall
        /\ returned' = None
        /\ UNCHANGED <<engineVars, renderVars, reasonVars, cacheVars>>

\* chain.get_proven_premise(subject)
GetProvenPremise ==
    \E subject \in QuerySubjects :
        /\ chain' = get_proven_premise(chain, subject).steps
        /\ returned' = get_proven_premise(chain, subject).returned
        /\ query' = subject
        /\ UNCHANGED <<added, engineVars, renderVars, reasonVars, cacheVars>>

NextChain == AddStep \/ GetProvenPremise

SpecChain == InitChain /\ [][NextChain]_vars

(***************************************************************************)
(* Proposition.__str__: the text of a proposition, or the error it raises. *)
(***************************************************************************)

\* the outcome of str(p): the returned text, or the ValueError raised
Returned(text) == [outcome |-> "returned", text |-> text]
Raised(message) == [outcome |-> "ValueError", text |-> message]

\* line 56: `not self.stat_value` holds of None and of the empty dict
falsy(stat_value) == stat_value = None \/ stat_value = << >>

\* line 58: self.stat_value.get("value", "Most"), formatted into the text
stat_text(stat_value) ==
    IF "value" \in DOMAIN stat_value THEN ToString(stat_value.value) ELSE "Most"

str_raises_for_none_only(self) ==
    IF self.quantifier = "Statistical"
    THEN IF self.stat_value = None
         THEN Raised("Statistical propositions must have a stat_value.")
         ELSE Returned(stat_text(self.stat_value) \o "% of " \o self.subject
                       \o " are " \o self.predicate)
    ELSE IF self.quantifier = "Some...not"
    THEN Returned("Some " \o self.subject \o " are not " \o self.predicate)
    ELSE Returned(self.quantifier \o " " \o self.subject \o " are " \o self.predicate)

__str__(self) ==
    IF self.quantifier = "Statistical"
    THEN IF falsy(self.stat_value)
         THEN Raised("Statistical propositions must have a stat_value.")
         ELSE Returned(stat_text(self.stat_value) \o "% of " \o self.subject
                       \o " are " \o self.predicate)
    ELSE IF self.quantifier = "Some...not"
    THEN Returned("Some " \o self.subject \o " are not " \o self.predicate)
    ELSE Returned(self.quantifier \o " " \o self.subject \o " are " \o self.predicate)

\* the propositions rendered: every quantifier, with and without a payload
\* (absent, empty, with a value, without one), negated or not
RenderTerms == {"Dogs", "Animals", ""}

StatValues ==
    {None, << >>, [type |-> "percentage", value |-> 80], [type |-> "percentage"]}

RenderPropositions ==
    {[quantifier |-> q, subject |-> s, predicate |-> p,
      is_negated |-> n, stat_value |-> v] :
        q \in Quantifier, s \in RenderTerms, p \in RenderTerms,
        n \in BOOLEAN, v \in StatValues}

InitRender ==
    /\ shown \in RenderPropositions
    /\ rendered = NotRendered
    /\ EngineIdle
    /\ ChainIdle
    /\ ReasonIdle
    /\ CacheIdle

\* str(shown)
Render ==
    /\ rendered' = __str__(shown)
    /\ UNCHANGED <<shown, engineVars, chainVars, reasonVars, cacheVars>>

NextRender == Render

SpecRender == InitRender /\ [][NextRender]_vars

(***************************************************************************)
(* LogicFramework.reason (framework/framework.py): five stages, each       *)
(* awaiting one answer of the LLM provider, building a ReasoningChain.     *)
(* A provider call returns an instance of the schema, or None, or raises.  *)
(***************************************************************************)

\* None where a str is expected and the string is only compared as a whole
NoText == "<None>"

\* models.py: ReasoningChain(main_query=...)
ReasoningChain(main_query) ==
    [main_query |-> main_query, steps |-> << >>,
     final_conclusion_summary |-> NoText]

\* models.py: ReasoningStep with every field given; a summary is a sequence
\* of text pieces, here the one piece its f-string yields
ReasoningStepWith(step_id, question, reasoning_type, rag_sources, syllogism, mood, is_valid, confidence, summary) ==
    [step_id |-> step_id, question |-> question,
     reasoning_type |-> reasoning_type, rag_sources |-> rag_sources,
     syllogism |-> syllogism, mood |-> mood, is_valid |-> is_valid,
     confidence |-> confidence, summary |-> <<summary>>]

\* chain.add_step(s) on the chain record
with_step(c, s) == [c EXCEPT !.steps = add_step(@, s)]

\* an exception raised while awaiting a stage, with str(e)
Failure(message) == [exception |-> message]
raises(out) == "exception" \in DOMAIN out

\* lines 230-243: the except branch
recover_without_step(c, message) ==
    [c EXCEPT !.final_conclusion_summary = "Failed to reach conclusion: " \o message]

recover(c, message) ==
    [with_step(c, ReasoningStepWith(Len(c.steps) + 1, "Error Recovery",
                                    "Observation", << >>, None, NoMood, FALSE,
                                    0, "Reasoning failed: " \o message))
        EXCEPT !.final_conclusion_summary = "Failed to reach conclusion: " \o message]

\* lines 124-135: the step of stage 1
analysis_step(analysis) ==
    ReasoningStepWith(1, "Query Analysis", "Observation", << >>, None, NoMood,
                      TRUE, 90,
                      "Topic: " \o analysis.main_topic \o ". Type: "
                          \o analysis.reasoning_type)

\* lines 139-152: the step of stage 2
evidence_step(evidence) ==
    ReasoningStepWith(2, "Evidence Retrieval", "Observation",
                      [i \in 1..Len(evidence.evidence_items) |->
                          [source_id |-> "ev_" \o ToString(i - 1),
                           text |-> evidence.evidence_items[i].fact,
                           url |-> None]],
                      None, NoMood, TRUE, 80, evidence.summary)

\* propositions.propositions[index]: the element, or IndexError
in_range(list, index) == index >= -Len(list) /\ index < Len(list)
element(list, index) ==
    IF index >= 0 THEN list[index + 1] ELSE list[Len(list) + index + 1]

\* lines 160-180: the step of stage 3
prop_step(propositions) ==
    LET major_prop == element(propositions.propositions, propositions.major_premise_index)
        minor_prop == element(propositions.propositions, propositions.minor_premise_index)
    IN  ReasoningStepWith(3, "Proposition Formation", "Observation", << >>,
                          Syllogism(Proposition(major_prop.quantifier,
                                                major_prop.subject,
                                                major_prop.predicate),
                                    Proposition(minor_prop.quantifier,
                                                minor_prop.subject,
                                                minor_prop.predicate),
                                    None),
                          NoMood, TRUE, 70,
                          "Formed " \o ToString(Len(propositions.propositions))
                              \o " propositions")

\* `x or ""` on an optional str
or_empty(x) == IF x = NoText THEN "" ELSE x

\* lines 185-211: the step of stage 4, from the provider's answer
deductive_step(syllogism, deductive_result) ==
    LET conclusion ==
            IF deductive_result.valid
               /\ deductive_result.conclusion_quantifier # NoText
            THEN Proposition(deductive_result.conclusion_quantifier,
                             or_empty(deductive_result.conclusion_subject),
                             or_empty(deductive_result.conclusion_predicate))
            ELSE None
    IN  ReasoningStepWith(4, "Deductive Reasoning", "Deductive", << >>,
                          Syllogism(syllogism.major_premise,
                                    syllogism.minor_premise, conclusion),
                          deductive_result.mood, deductive_result.valid,
                          IF deductive_result.valid THEN FullConfidence ELSE 30,
                          deductive_result.explanation)

\* lines 217-226: the step of stage 5
final_step(c, final) ==
    ReasoningStepWith(Len(c.steps) + 1, "Final Conclusion", "Observation",
                      << >>, None, NoMood, final.is_valid, final.confidence,
                      final.conclusion_text)

\* what the provider may answer at each stage
Queries == {"Are dogs animals?", "What is logic?"}

Outage == Failure("provider unavailable")

AnalysisOutcomes ==
    {None, Outage, [main_topic |-> "Logic", reasoning_type |-> "Deductive"]}

EvidenceOutcomes ==
    {None, Outage,
     [summary |-> "Evidence about logic", evidence_items |-> << >>],
     [summary |-> "Evidence about dogs",
      evidence_items |-> <<[fact |-> "All mammals are animals"],
                           [fact |-> "All dogs are mammals"]>>]}

SchemaProposition(q, s, p) ==
    [quantifier |-> q, subject |-> s, predicate |-> p, source_evidence |-> "ev"]

MajorCandidate == SchemaProposition("All", "mammals", "animals")
MinorCandidate == SchemaProposition("All", "dogs", "mammals")
OtherCandidate == SchemaProposition("No", "dogs", "mammals")

PropositionOutcomes ==
    {None, Outage}
    \cup {[propositions |-> <<MajorCandidate>>,
           major_premise_index |-> 0, minor_premise_index |-> 0]}
    \cup {[propositions |-> <<MajorCandidate, minor>>,
           major_premise_index |-> i, minor_premise_index |-> j] :
             minor \in {MinorCandidate, OtherCandidate}, i \in {0, 2}, j \in {1, 2}}

DeductiveAnswer(valid, mood, q, s, p) ==
    [valid |-> valid, mood |-> mood, conclusion_quantifier |-> q,
     conclusion_subject |-> s, conclusion_predicate |-> p,
     explanation |-> "as the provider explains"]

DeductiveOutcomes ==
    {None, Outage,
     DeductiveAnswer(TRUE, "Barbara", "All", "dogs", "animals"),
     DeductiveAnswer(TRUE, "Barbara", "All", NoText, NoText),
     DeductiveAnswer(TRUE, NoText, NoText, NoText, NoText),
     DeductiveAnswer(FALSE, NoText, NoText, NoText, NoText),
     DeductiveAnswer(FALSE, "Barbara", "All", "dogs", "animals")}

FinalOutcomes ==
    {None, Outage,
     [conclusion_text |-> "Test conclusion", is_valid |-> TRUE, confidence |-> 90]}

\* LogicFramework(config), no query under way
InitReason ==
    /\ pc = "idle"
    /\ frame = None
    /\ EngineIdle
    /\ ChainIdle
    /\ RenderIdle
    /\ CacheIdle

\* the except branch, entered from any stage: reason returns the chain
Fail(message) ==
    /\ frame' = [frame EXCEPT !.chain = recover(@, message), !.e = message]
    /\ pc' = "returned"

\* reason(query), up to the first await
Reason ==
    /\ pc = "idle"
    /\ \E q \in Queries :
          frame' = [query |-> q, chain |-> ReasoningChain(q), analysis |-> None,
                    evidence |-> None, propositions |-> None, prop_step |-> None,
                    e |-> NoText]
    /\ pc' = "analysis"
    /\ UNCHANGED <<engineVars, chainVars, renderVars, cacheVars>>

\* stage 1, lines 123-135
Analyze ==
    /\ pc = "analysis"
    /\ \E out \in AnalysisOutcomes :
          IF raises(out) THEN Fail(out.exception)
          ELSE /\ frame' = [frame EXCEPT
                               !.analysis = out,
                               !.chain = IF out # None
                                         THEN with_step(@, analysis_step(out))
                                         ELSE @]
               /\ pc' = "evidence"
    /\ UNCHANGED <<engineVars, chainVars, renderVars, cacheVars>>

\* stage 2, lines 137-152
Retrieve ==
    /\ pc = "evidence"
    /\ \E out \in EvidenceOutcomes :
          IF raises(out) THEN Fail(out.exception)
          ELSE /\ frame' = [frame EXCEPT
                               !.evidence = out,
                               !.chain = IF out # None
                                         THEN with_step(@, evidence_step(out))
                                         ELSE @]
               /\ pc' = "propositions"
    /\ UNCHANGED <<engineVars, chainVars, renderVars, cacheVars>>

\* _form_propositions, lines 279-283: no provider call without evidence items
FormOutcomes ==
    IF frame.evidence = None \/ frame.evidence.evidence_items = << >>
    THEN {None}
    ELSE PropositionOutcomes

\* stage 3, lines 154-180
Form ==
    /\ pc = "propositions"
    /\ \E out \in FormOutcomes :
          IF raises(out) THEN Fail(out.exception)
          ELSE IF out # None /\ Len(out.propositions) >= 2
          THEN IF /\ in_range(out.propositions, out.major_premise_index)
                  /\ in_range(out.propositions, out.minor_premise_index)
               THEN /\ frame' = [frame EXCEPT
                                    !.propositions = out,
                                    !.prop_step = prop_step(out),
                                    !.chain = with_step(@, prop_step(out))]
                    /\ pc' = "deduction"
               ELSE Fail("list index out of range")
          ELSE /\ frame' = [frame EXCEPT !.propositions = out]
               /\ pc' = "conclusion"
    /\ UNCHANGED <<engineVars, chainVars, renderVars, cacheVars>>

\* stage 4, lines 182-212
Deduce ==
    /\ pc = "deduction"
    /\ \E out \in DeductiveOutcomes :
          IF raises(out) THEN Fail(out.exception)
          ELSE /\ frame' = [frame EXCEPT
                               !.chain =
                                  IF out # None /\ frame.prop_step.syllogism # None
                                  THEN with_step(@, deductive_step(
                                           frame.prop_step.syllogism, out))
                                  ELSE @]
               /\ pc' = "conclusion"
    /\ UNCHANGED <<engineVars, chainVars, renderVars, cacheVars>>

\* stage 5 and the return, lines 214-245
Conclude ==
    /\ pc = "conclusion"
    /\ \E out \in FinalOutcomes :
          IF raises(out) THEN Fail(out.exception)
          ELSE /\ frame' = [frame EXCEPT
                               !.chain =
                                  IF out # None
                                  THEN [with_step(@, final_step(@, out)) EXCEPT
                                           !.final_conclusion_summary =
                                               out.conclusion_text]
                                  ELSE @]
               /\ pc' = "returned"
    /\ UNCHANGED <<engineVars, chainVars, renderVars, cacheVars>>

NextReason == Reason \/ Analyze \/ Retrieve \/ Form \/ Deduce \/ Conclude

SpecReason == InitReason /\ [][NextReason]_vars

(***************************************************************************)
(* LLMResponseCache (framework/llm.py).  The two dicts are sequences of    *)
(* [key, value] items in insertion order, the order min() scans them in.   *)
(* time.time() is the variable clock, which several calls may read at the  *)
(* same instant.                                                           *)
(***************************************************************************)
ttl == 1
maxsize == 2

dict_has(d, k) == \E i \in 1..Len(d) : d[i].key = k
dict_get(d, k) == d[CHOOSE i \in 1..Len(d) : d[i].key = k].value
dict_set(d, k, v) ==
    IF dict_has(d, k)
    THEN [i \in 1..Len(d) |-> IF d[i].key = k THEN [key |-> k, value |-> v] ELSE d[i]]
    ELSE Append(d, [key |-> k, value |-> v])
dict_del(d, k) == SelectSeq(d, LAMBDA item : item.key # k)

\* hexdigest of the text: one string for each text, different for different texts
sha256(text) == "sha256(" \o text \o ")"

_generate_key(prompt, provider, model, schema_name) ==
    sha256(prompt \o "|" \o provider \o "|" \o model \o "|" \o schema_name)

_is_expired(stamps, now, key) ==
    IF ~dict_has(stamps, key) THEN TRUE
    ELSE now - dict_get(stamps, key) > ttl

\* the cache object after _cleanup(): both dicts without the expired keys
_cleanup(c, stamps, now) ==
    [cache |-> SelectSeq(c, LAMBDA item : ~_is_expired(stamps, now, item.key)),
     timestamps |-> SelectSeq(stamps,
         LAMBDA item : ~(dict_has(c, item.key) /\ _is_expired(stamps, now, item.key)))]

\* min(timestamps.keys(), key=...): the first key, in insertion order, whose
\* timestamp is the least
oldest_key(stamps) ==
    stamps[CHOOSE i \in 1..Len(stamps) :
        /\ \A j \in 1..Len(stamps) : stamps[i].value <= stamps[j].value
        /\ \A j \in 1..(i - 1) : stamps[j].value > stamps[i].value].key

\* the cache object after the eviction step of get()
evict_oldest(c, stamps) ==
    IF Len(c) >= maxsize
    THEN [cache |-> dict_del(c, oldest_key(stamps)),
          timestamps |-> dict_del(stamps, oldest_key(stamps))]
    ELSE [cache |-> c, timestamps |-> stamps]

\* get(): the cache object it leaves and the value it returns
get(c, stamps, now, prompt, provider, model, schema_name) ==
    LET cleaned == _cleanup(c, stamps, now)
        kept == evict_oldest(cleaned.cache, cleaned.timestamps)
        key == _generate_key(prompt, provider, model, schema_name)
    IN  [cache |-> kept.cache,
         timestamps |-> kept.timestamps,
         value |-> IF dict_has(kept.cache, key) /\ ~_is_expired(kept.timestamps, now, key)
                   THEN dict_get(kept.cache, key)
                   ELSE None]

\* set(): the cache object it leaves
set(c, stamps, now, prompt, provider, model, schema_name, response) ==
    LET key == _generate_key(prompt, provider, model, schema_name)
    IN  [cache |-> dict_set(c, key, response),
         timestamps |-> dict_set(stamps, key, now)]

Prompts == {"a", "a|b"}
Providers == {"c", "b|c"}
Models == {"m"}
SchemaNames == {"S"}
KeyArgs == Prompts \X Providers \X Models \X SchemaNames
Responses == {[text |-> "r1"], [text |-> "r2"]}

InitCache ==
    /\ CacheIdle
    /\ EngineIdle
    /\ ChainIdle
    /\ RenderIdle
    /\ ReasonIdle

Set ==
    /\ Len(stored) < MaxSets
    /\ \E args \in KeyArgs, response \in Responses :
        LET after == set(cache, timestamps, clock,
                         args[1], args[2], args[3], args[4], response)
        IN  /\ cache' = after.cache
            /\ timestamps' = after.timestamps
            /\ stored' = Append(stored,
                   [args |-> args, response |-> response, at |-> clock])
    /\ UNCHANGED <<clock, got, engineVars, chainVars, renderVars, reasonVars>>

Get ==
    /\ \E args \in KeyArgs :
        LET after == get(cache, timestamps, clock,
                         args[1], args[2], args[3], args[4])
        IN  /\ cache' = after.cache
            /\ timestamps' = after.timestamps
            /\ got' = [args |-> args, value |-> after.value,
                       at |-> clock, after |-> Len(stored)]
    /\ UNCHANGED <<clock, stored, engineVars, chainVars, renderVars, reasonVars>>

Tick ==
    /\ clock < MaxClock
    /\ clock' = clock + 1
    /\ UNCHANGED <<cache, timestamps, stored, got,
                   engineVars, chainVars, renderVars, reasonVars>>

NextCache == Set \/ Get \/ Tick
SpecCache == InitCache /\ [][NextCache]_vars

(***************************************************************************)
(* The documented mood table: for each mood its figure, the quantifiers of *)
(* the two premises and the quantifier of the conclusion, in the           *)
(* documented order.  Figures place the terms as                           *)
(*   1: M-P, S-M    2: P-M, S-M    3: M-P, M-S    4: P-M, M-S              *)
(***************************************************************************)
Row(mood, figure, major, minor, conclusion) ==
    [mood |-> mood, figure |-> figure, major |-> major, minor |-> minor,
     conclusion |-> conclusion]

MoodTable ==
    << Row("Barbara", "1", "All", "All", "All"),
       Row("Celarent", "1", "No", "All", "No"),
       Row("Darii", "1", "All", "Some", "Some"),
       Row("Ferio", "1", "No", "Some", "Some...not"),
       Row("Cesare", "2", "No", "All", "No"),
       Row("Camestres", "2", "All", "No", "No"),
       Row("Festino", "2", "No", "Some", "Some...not"),
       Row("Baroco", "2", "All", "Some...not", "Some...not"),
       Row("Darapti", "3", "All", "All", "Some"),
       Row("Felapton", "3", "No", "All", "Some...not"),
       Row("Disamis", "3", "Some", "All", "Some"),
       Row("Datisi", "3", "All", "Some", "Some"),
       Row("Bocardo", "3", "Some...not", "All", "Some...not"),
       Row("Ferison", "3", "No", "Some", "Some...not"),
       Row("Baralipton", "4", "All", "All", "Some"),
       Row("Celantes", "4", "No", "All", "No"),
       Row("Dabitis", "4", "Some", "All", "Some"),
       Row("Fapesmo", "4", "No", "Some", "Some...not") >>

Rows == 1..Len(MoodTable)

\* the canonical premise pair of a row over the terms m, s, p
CanonicalMajor(row, m, s, p) ==
    IF row.figure \in {"1", "3"} THEN Proposition(row.major, m, p)
    ELSE Proposition(row.major, p, m)

CanonicalMinor(row, m, s, p) ==
    IF row.figure \in {"1", "2"} THEN Proposition(row.minor, s, m)
    ELSE Proposition(row.minor, m, s)

\* the documented precondition of a row on a premise pair
RowMatches(row, major, minor) ==
    /\ major.quantifier = row.major
    /\ minor.quantifier = row.minor
    /\ CASE row.figure = "1" -> major.subject = minor.predicate
         [] row.figure = "2" -> major.predicate = minor.predicate
         [] row.figure = "3" -> major.subject = minor.subject
         [] row.figure = "4" -> major.predicate = minor.subject

\* the documented conclusion of a row on a premise pair
RowConclusion(row, major, minor) ==
    Proposition(row.conclusion,
                IF row.figure \in {"1", "2"} THEN minor.subject ELSE minor.predicate,
                IF row.figure \in {"1", "3"} THEN major.predicate ELSE major.subject)

HasPremises(s) == major_of(s) # None /\ minor_of(s) # None
Validated == calls >= 1

\* C1: for each row of the mood table, validating a step whose premises are
\* the row's canonical pair over three pairwise-distinct terms M, S, P yields
\* is_valid = true, mood = the row's name, and the conclusion
\* <row quantifier> S are P.
C1_CanonicalRowsRecognized ==
    Validated =>
        \A i \in Rows : \A m \in Terms : \A s \in Terms \ {m} : \A p \in Terms \ {m, s} :
            ( /\ HasPremises(step)
              /\ major_of(step) = CanonicalMajor(MoodTable[i], m, s, p)
              /\ minor_of(step) = CanonicalMinor(MoodTable[i], m, s, p) )
            => /\ step.is_valid
               /\ step.mood = MoodTable[i].mood
               /\ step.syllogism.conclusion = Proposition(MoodTable[i].conclusion, s, p)

\* the last row's canonical pair (No P are M, Some M are S) has been validated
C1_Witness ==
    /\ Validated
    /\ step.syllogism # None
    /\ step.syllogism.major_premise = Proposition("No", "P", "M")
    /\ step.syllogism.minor_premise = Proposition("Some", "M", "S")
    /\ step.mood = "Fapesmo"
    /\ step.syllogism.conclusion = Proposition("Some...not", "S", "P")

(***************************************************************************)
(* Classical reading of a proposition: terms denote non-empty subsets of a *)
(* finite universe.                                                        *)
(***************************************************************************)
Universe == 1..USize
Interpretations == [Terms -> (SUBSET Universe) \ {{}}]

Holds(I, prop) ==
    CASE prop.quantifier = "All"        -> I[prop.subject] \subseteq I[prop.predicate]
      [] prop.quantifier = "No"         -> I[prop.subject] \cap I[prop.predicate] = {}
      [] prop.quantifier = "Some"       -> I[prop.subject] \cap I[prop.predicate] # {}
      [] prop.quantifier = "Some...not" -> I[prop.subject] \ I[prop.predicate] # {}

\* C2: whenever validate marks a step valid, its conclusion is true in every
\* interpretation (terms as non-empty sets) in which both premises are true.
C2_ConclusionFollows ==
    (Validated /\ step.is_valid) =>
        \A I \in Interpretations :
            (Holds(I, step.syllogism.major_premise) /\ Holds(I, step.syllogism.minor_premise))
            => Holds(I, step.syllogism.conclusion)

\* the registered rules whose validator yields a conclusion for the pair
MatchingRules(major, minor) ==
    {i \in 1..Len(mood_validators) :
        validator_func(mood_validators[i], major, minor) # None}

\* the number of term positions in which the two premises coincide
SharedPositions(major, minor) ==
    Cardinality({f \in {"1", "2", "3", "4"} :
        CASE f = "1" -> major.subject = minor.predicate
          [] f = "2" -> major.predicate = minor.predicate
          [] f = "3" -> major.subject = minor.subject
          [] f = "4" -> major.predicate = minor.subject})

\* C3 (as stated): for every pair of premises, at most one registered rule
\* has its precondition satisfied.
C3_AtMostOneRuleMatches ==
    HasPremises(step) =>
        Cardinality(MatchingRules(major_of(step), minor_of(step))) <= 1

\* C3 (amended): for every pair of premises whose terms coincide in at most
\* one of the four positions, at most one registered rule has its
\* precondition satisfied, and validate reports exactly that rule.
C3_AtMostOneRuleForOneSharedPosition ==
    (HasPremises(step) /\ SharedPositions(major_of(step), minor_of(step)) <= 1) =>
        LET matching == MatchingRules(major_of(step), minor_of(step))
        IN  /\ Cardinality(matching) <= 1
            /\ Validated =>
                 /\ step.is_valid = (matching # {})
                 /\ \A i \in matching : step.mood = mood_validators[i]

\* All M are P, All S are M: one shared position, one rule, reported
C3_Witness ==
    /\ Validated
    /\ HasPremises(step)
    /\ major_of(step) = Proposition("All", "M", "P")
    /\ minor_of(step) = Proposition("All", "S", "M")
    /\ SharedPositions(major_of(step), minor_of(step)) = 1
    /\ MatchingRules(major_of(step), minor_of(step)) = {1}
    /\ step.mood = "Barbara"

\* the rows of the documented table whose precondition holds for the pair
MatchingRows(major, minor) ==
    {i \in Rows : RowMatches(MoodTable[i], major, minor)}

Min(S) == CHOOSE x \in S : \A y \in S : x <= y

\* C4: when at least one row's precondition holds, validate reports the mood
\* and conclusion of the first such row in the documented order, having run
\* no validator after it.
C4_FirstMatchWins ==
    (Validated /\ HasPremises(step)
       /\ MatchingRows(major_of(step), minor_of(step)) # {}) =>
        LET first == Min(MatchingRows(major_of(step), minor_of(step)))
        IN  /\ step.is_valid
            /\ step.mood = MoodTable[first].mood
            /\ step.syllogism.conclusion =
                   RowConclusion(MoodTable[first], major_of(step), minor_of(step))
            /\ tried = first

\* All M are P, All P are M satisfies Barbara and Baralipton; Barbara is reported
C4_Witness ==
    /\ Validated
    /\ HasPremises(step)
    /\ major_of(step) = Proposition("All", "M", "P")
    /\ minor_of(step) = Proposition("All", "P", "M")
    /\ MatchingRows(major_of(step), minor_of(step)) = {1, 15}
    /\ step.mood = "Barbara"
    /\ step.syllogism.conclusion = Proposition("All", "P", "P")
    /\ tried = 1

MoodNames == {mood_validators[i] : i \in 1..Len(mood_validators)}

\* C5 (as stated): the rule table holds exactly 19 rules with distinct names
\* (so a validation that matches none of them has run 19 validators).
C5_NineteenRules ==
    /\ Len(mood_validators) = 19
    /\ Cardinality(MoodNames) = 19
    /\ (Validated /\ HasPremises(step) /\ ~step.is_valid) => tried = 19

\* C5 (amended): the rule table holds exactly 18 rules, keyed by 18 distinct
\* names, which are the names of the documented table (so a validation that
\* matches none of them has run 18 validators).
C5_EighteenRules ==
    /\ Len(mood_validators) = 18
    /\ Cardinality(MoodNames) = 18
    /\ MoodNames = {MoodTable[i].mood : i \in Rows}
    /\ (Validated /\ HasPremises(step) /\ ~step.is_valid) => tried = 18

\* the 18th rule of the table has fired, after the 17 before it were tried
C5_Witness ==
    /\ Validated
    /\ step.is_valid
    /\ tried = 18
    /\ step.mood = mood_validators[18]

\* the last step of the behaviour is a validate call on the step
ValidateCall == calls' = calls + 1

\* C6: if both premises are present, no row's precondition holds and the step
\* holds no conclusion, validate leaves is_valid = false, the summary extended
\* by the no-syllogism marker, and the conclusion still absent.
C6_NoMatchRejected ==
    [][ ( /\ ValidateCall
          /\ HasPremises(step)
          /\ MatchingRows(major_of(step), minor_of(step)) = {}
          /\ step.syllogism.conclusion = None )
        => /\ step'.is_valid = FALSE
           /\ step'.summary = step.summary \o <<" ", NoSyllogismMarker>>
           /\ step'.syllogism.conclusion = None ]_vars

\* All M are S, All P are X (no shared term) has been rejected
C6_Witness ==
    /\ Validated
    /\ HasPremises(step)
    /\ major_of(step) = Proposition("All", "M", "S")
    /\ minor_of(step) = Proposition("All", "P", "X")
    /\ ~step.is_valid
    /\ step.summary = <<"note", " ", NoSyllogismMarker>>
    /\ step.syllogism.conclusion = None
    /\ tried = 18

\* the claim's own reading of "a premise is missing"
PremiseMissing(s) ==
    \/ s.syllogism = None
    \/ s.syllogism.major_premise = None
    \/ s.syllogism.minor_premise = None

\* C7: if the step has no syllogism or lacks a premise, validate sets
\* is_valid = false, extends the summary by the missing-premises marker,
\* leaves mood and the syllogism (with its conclusion) as they were, and runs
\* no validator.
C7_MissingPremisesRejected ==
    [][ (ValidateCall /\ PremiseMissing(step))
        => /\ step'.is_valid = FALSE
           /\ step'.summary = step.summary \o <<" ", MissingPremisesMarker>>
           /\ step'.mood = step.mood
           /\ step'.syllogism = step.syllogism
           /\ tried' = 0 ]_vars

\* a step lacking only its major premise has been rejected, its earlier mood
\* and conclusion still in place
C7_Witness ==
    /\ Validated
    /\ step.syllogism # None
    /\ step.syllogism.major_premise = None
    /\ step.syllogism.minor_premise = Proposition("All", "S", "M")
    /\ ~step.is_valid
    /\ step.mood = StaleMood
    /\ step.syllogism.conclusion = StaleConclusion
    /\ step.summary = <<" ", MissingPremisesMarker>>
    /\ tried = 0

\* C8: whenever validate returns with is_valid = true, the syllogism carries a
\* conclusion, mood names a registered rule and confidence is 1.0.
C8_ValidVerdictComplete ==
    (Validated /\ step.is_valid) =>
        /\ step.syllogism # None
        /\ step.syllogism.conclusion # None
        /\ step.mood \in MoodNames
        /\ step.confidence = FullConfidence

\* a step built with confidence 0.5 and a note has been validated as Darii
C8_Witness ==
    /\ Validated
    /\ step.is_valid
    /\ step.summary = <<"note">>
    /\ step.mood = "Darii"
    /\ step.confidence = FullConfidence
    /\ step.syllogism.conclusion = Proposition("Some", "S", "P")

SamePremises(a, b) ==
    /\ major_of(a) = major_of(b)
    /\ minor_of(a) = minor_of(b)

\* C9: a second validate call on a step already marked valid leaves is_valid,
\* mood and conclusion as they were; and two separate validated steps with
\* equal premises are both valid with the same mood and conclusion, or both
\* rejected.
C9_DeterministicIdempotent ==
    /\ [][ (ValidateCall /\ Validated /\ step.is_valid)
           => /\ step'.is_valid = step.is_valid
              /\ step'.mood = step.mood
              /\ step'.syllogism.conclusion = step.syllogism.conclusion ]_vars
    /\ []( (Validated /\ twin_calls >= 1 /\ SamePremises(step, twin))
           => /\ step.is_valid = twin.is_valid
              /\ step.is_valid =>
                    /\ step.mood = twin.mood
                    /\ step.syllogism.conclusion = twin.syllogism.conclusion )

\* a step that held an earlier mood and conclusion, validated twice, and its
\* fresh twin agree on Cesare
C9_Witness ==
    /\ calls = 2
    /\ twin_calls = 1
    /\ SamePremises(step, twin)
    /\ step.summary = <<"note">>
    /\ step.is_valid /\ twin.is_valid
    /\ step.mood = "Cesare" /\ twin.mood = "Cesare"
    /\ step.syllogism.conclusion = Proposition("No", "S", "P")
    /\ twin.syllogism.conclusion = Proposition("No", "S", "P")

HasStatisticalPremise(s) ==
    \/ major_of(s).quantifier = "Statistical"
    \/ minor_of(s).quantifier = "Statistical"

\* C10: if either premise is Statistical no rule matches, validate leaves the
\* step invalid and its conclusion as it was; and no conclusion validate
\* derives is Statistical.
C10_StatisticalNeverMatched ==
    [][ ValidateCall =>
          /\ (HasPremises(step) /\ HasStatisticalPremise(step))
             => /\ MatchingRules(major_of(step), minor_of(step)) = {}
                /\ ~step'.is_valid
                /\ step'.syllogism.conclusion = step.syllogism.conclusion
                /\ step'.mood = step.mood
          /\ step'.is_valid => step'.syllogism.conclusion.quantifier # "Statistical"
      ]_vars

\* "80% of M are P", "All S are M" has been tried against every rule and rejected
C10_Witness ==
    /\ Validated
    /\ HasPremises(step)
    /\ major_of(step) = StatisticalProposition("M", "P")
    /\ minor_of(step) = Proposition("All", "S", "M")
    /\ ~step.is_valid
    /\ step.syllogism.conclusion = None
    /\ tried = 18

\* ---------------------------------------------------------------------------
\* Claims about term identity and the ledger of proven conclusions
\* ---------------------------------------------------------------------------

\* a term after trimming surrounding whitespace and lower-casing
Normalized(s) == lower(strip(s))

\* the ledger finds the conclusion "All m are P" when asked about m2
LookupTreatsEqual(m, m2) ==
    LET concl == Proposition("All", m, <<"P">>)
        only == ReasoningStep(Syllogism(None, None, concl), NoMood, TRUE,
                              FullConfidence, << >>)
    IN  get_proven_premise(<<only>>, m2).returned = Existing(1, concl)

\* two spellings of one middle term that differ in case or surrounding
\* whitespace, with end terms that are different terms under any reading
RespelledMiddle(m, m2, s, p) ==
    /\ m # m2
    /\ Normalized(m) = Normalized(m2)
    /\ Normalized(s) # Normalized(p)
    /\ Normalized(s) # Normalized(m)
    /\ Normalized(p) # Normalized(m)

\* C11: the rules compare terms as exact strings, with no case folding and no
\* trimming: a premise pair that fits a row of the table except that the
\* middle term is spelt differently in the two premises (in case or in
\* surrounding whitespace) matches no rule and is rejected, although the
\* ledger lookup by subject treats the two spellings as the same term.
C11_ExactTermIdentity ==
    (Validated /\ HasPremises(step)) =>
        \A m \in CaseTerms : \A m2 \in CaseTerms : \A s \in CaseTerms : \A p \in CaseTerms :
            RespelledMiddle(m, m2, s, p) =>
                \A i \in Rows :
                    (/\ major_of(step) = CanonicalMajor(MoodTable[i], m, s, p)
                     /\ minor_of(step) = CanonicalMinor(MoodTable[i], m2, s, p))
                    => /\ MatchingRules(major_of(step), minor_of(step)) = {}
                       /\ ~step.is_valid
                       /\ step.mood = NoMood
                       /\ step.syllogism.conclusion = None
                       /\ LookupTreatsEqual(m, m2)

\* "All m are P", "All S are M" has been validated and rejected
C11_Witness ==
    /\ Validated
    /\ major_of(step) = Proposition("All", <<"m">>, <<"P">>)
    /\ minor_of(step) = Proposition("All", <<"S">>, <<"M">>)
    /\ ~step.is_valid
    /\ step.summary = <<" ", NoSyllogismMarker>>
    /\ LookupTreatsEqual(<<"m">>, <<"M">>)

\* a lookup with a subject has been made and its result is in `returned`
Asked == query # NoCall /\ query # NoneStr

\* the step at position i is valid and has a syllogism with a conclusion
Qualifying(i) ==
    /\ chain[i].is_valid
    /\ chain[i].syllogism # None
    /\ chain[i].syllogism.conclusion # None

Concl(i) == chain[i].syllogism.conclusion

\* the conclusion at position i has the queried term as subject / as
\* predicate, up to surrounding whitespace and letter case
SubjectMatches(i) == Normalized(Concl(i).subject) = Normalized(query)

PredicateMatches(i) == Normalized(Concl(i).predicate) = Normalized(query)

\* no step added after position i qualifies and matches the queried term
NoLaterMatch(i) ==
    \A j \in (i + 1)..Len(chain) :
        ~(Qualifying(j) /\ (SubjectMatches(j) \/ PredicateMatches(j)))

\* the queried term is not empty once surrounding whitespace is trimmed
NonBlankQuery == strip(query) # << >>

\* C12 as stated: a qualifying conclusion whose subject equals the queried
\* term after trimming and lower-casing both, with no more recent qualifying
\* step matching by subject or predicate, is returned as the very same object.
C12_SubjectMatchReturned ==
    Asked =>
        \A i \in 1..Len(chain) :
            (Qualifying(i) /\ SubjectMatches(i) /\ NoLaterMatch(i))
            => returned = Existing(i, Concl(i))

\* C12 amended: the same, for a queried term that is not blank; a blank query
\* never matches a conclusion whose subject is the empty string.
C12_NonBlankSubjectMatchReturned ==
    (Asked /\ NonBlankQuery) =>
        \A i \in 1..Len(chain) :
            (Qualifying(i) /\ SubjectMatches(i) /\ NoLaterMatch(i))
            => returned = Existing(i, Concl(i))

\* the older of two steps holds a conclusion about "A ", the newer one is
\* about other terms, and the lookup of "a" returned the older one
C12_Witness ==
    /\ Asked
    /\ query = <<"a">>
    /\ Len(chain) = 2
    /\ Qualifying(1) /\ Qualifying(2)
    /\ Concl(1).subject = <<"A", " ">>
    /\ ~SubjectMatches(2) /\ ~PredicateMatches(2)
    /\ returned = Existing(1, Concl(1))

\* the quantifiers whose propositions convert simply
Convertible == {"No", "Some"}

\* the step at position i can answer the lookup: its conclusion has the
\* queried term as subject, or as predicate with a convertible quantifier
Usable(i) ==
    /\ Qualifying(i)
    /\ \/ SubjectMatches(i)
       \/ PredicateMatches(i) /\ Concl(i).quantifier \in Convertible

\* the reverse scan gets as far as position i: no later step answers
ScanReaches(i) == \A j \in (i + 1)..Len(chain) : ~Usable(j)

\* the converse of the conclusion at position i, about the term as queried
ConverseAt(i) ==
    Constructed(Proposition(Concl(i).quantifier, query, Concl(i).subject))

\* C13 as stated: when the scan reaches a qualifying step whose conclusion
\* has the queried term as predicate and not as subject, with quantifier No
\* or Some, the result is a new proposition with that quantifier, the query
\* as passed in as subject and the conclusion's subject as predicate, and
\* the stored conclusion is left as it was.
C13_PredicateMatchConverted ==
    Asked =>
        \A i \in 1..Len(chain) :
            (/\ Qualifying(i) /\ ScanReaches(i)
             /\ PredicateMatches(i) /\ ~SubjectMatches(i)
             /\ Concl(i).quantifier \in Convertible)
            => returned = ConverseAt(i) /\ chain = added

\* C13 amended: the same, for a queried term that is not blank; a blank query
\* never matches a conclusion whose predicate is the empty string.
C13_NonBlankPredicateMatchConverted ==
    (Asked /\ NonBlankQuery) =>
        \A i \in 1..Len(chain) :
            (/\ Qualifying(i) /\ ScanReaches(i)
             /\ PredicateMatches(i) /\ ~SubjectMatches(i)
             /\ Concl(i).quantifier \in Convertible)
            => returned = ConverseAt(i) /\ chain = added

\* "No A are b" is the latest conclusion and the lookup of " B" returned a
\* new "No  B are A " beside it
C13_Witness ==
    /\ Asked
    /\ query = <<" ", "B">>
    /\ Len(chain) >= 1
    /\ Qualifying(Len(chain))
    /\ Concl(Len(chain)) = Proposition("No", <<"A", " ">>, <<"b">>)
    /\ returned = Constructed(Proposition("No", <<" ", "B">>, <<"A", " ">>))
    /\ chain = added

\* the steps added before position i
Older(i) == SubSeq(chain, 1, i - 1)

\* the conclusion at position i has the queried term as predicate only, and
\* a quantifier that does not convert
UnconvertibleAt(i) ==
    /\ Qualifying(i)
    /\ PredicateMatches(i) /\ ~SubjectMatches(i)
    /\ Concl(i).quantifier \in {"All", "Some...not", "Statistical"}

\* C14: a qualifying conclusion that has the queried term only as predicate,
\* with quantifier All, Some...not or Statistical, never provides the result,
\* neither itself nor as a converse; when the scan reaches it the result is
\* what the lookup yields on the older steps alone, none if there are none.
C14_UnconvertibleSkipped ==
    Asked =>
        \A i \in 1..Len(chain) :
            UnconvertibleAt(i) =>
                /\ returned # Existing(i, Concl(i))
                /\ returned # ConverseAt(i)
                /\ ScanReaches(i) =>
                      /\ returned = get_proven_premise(Older(i), query).returned
                      /\ (i = 1 => returned = None)

\* the latest conclusion "All A are b" does not convert, and the lookup of
\* " B" fell back to the older conclusion about b
C14_Witness ==
    /\ Asked
    /\ query = <<" ", "B">>
    /\ Len(chain) = 2
    /\ UnconvertibleAt(2)
    /\ Concl(2) = Proposition("All", <<"A", " ">>, <<"b">>)
    /\ Qualifying(1) /\ SubjectMatches(1)
    /\ returned = Existing(1, Concl(1))

\* C15: only valid steps that have a syllogism with a conclusion are used:
\* the conclusion of a step that is not valid is never the result, and every
\* result is the conclusion of a qualifying step or the No/Some converse of
\* the conclusion of one.
C15_OnlyQualifyingStepsUsed ==
    (Asked /\ returned # None) =>
        /\ \A i \in 1..Len(chain) : ~chain[i].is_valid => returned.owner # i
        /\ \E i \in 1..Len(chain) :
              /\ Qualifying(i)
              /\ \/ returned = Existing(i, Concl(i))
                 \/ /\ Concl(i).quantifier \in Convertible
                    /\ returned = ConverseAt(i)

\* the latest step is not valid although its conclusion is about the queried
\* term; the lookup passed over it and returned the older, valid conclusion
C15_Witness ==
    /\ Asked
    /\ query = <<"a">>
    /\ Len(chain) = 2
    /\ ~chain[2].is_valid
    /\ chain[2].syllogism # None /\ chain[2].syllogism.conclusion # None
    /\ chain[2].syllogism.conclusion.subject = <<"A", " ">>
    /\ Qualifying(1)
    /\ returned = Existing(1, Concl(1))

\* the result is a newly built proposition
IsConversion == returned # None /\ returned.owner = 0

\* the conclusion at position i has the queried term as predicate and not as
\* subject, with a quantifier that converts
ConvertibleAt(i) ==
    /\ Qualifying(i)
    /\ PredicateMatches(i) /\ ~SubjectMatches(i)
    /\ Concl(i).quantifier \in Convertible

\* the positions of the qualifying conclusions about the queried term
SubjectMatchPositions ==
    {i \in 1..Len(chain) : Qualifying(i) /\ SubjectMatches(i)}

Max(S) == CHOOSE x \in S : \A y \in S : y <= x

\* C16 as stated: a conversion is returned only when no qualifying step of
\* the chain has a conclusion about the queried term; if one has, the result
\* is the most recent such conclusion, even when a more recent step converts.
\* Stated for queries that are not blank, where what matches is not in doubt.
C16_SubjectMatchPrevails ==
    (Asked /\ NonBlankQuery) =>
        /\ IsConversion => SubjectMatchPositions = {}
        /\ SubjectMatchPositions # {} =>
              returned = Existing(Max(SubjectMatchPositions),
                                  Concl(Max(SubjectMatchPositions)))

\* C16 amended: for a query that is not blank, a conversion comes from a step
\* after which no qualifying step has a conclusion about the queried term;
\* a conclusion about the term in an older step does not prevail over a more
\* recent conclusion that converts: the scan stops at the more recent one.
C16_SubjectMatchPrevailsOverOlderOnly ==
    (Asked /\ NonBlankQuery) =>
        /\ IsConversion =>
              \E i \in 1..Len(chain) :
                  /\ ConvertibleAt(i)
                  /\ returned = ConverseAt(i)
                  /\ \A j \in (i + 1)..Len(chain) : j \notin SubjectMatchPositions
        /\ \A i \in 1..Len(chain) :
              (ConvertibleAt(i) /\ ScanReaches(i) /\ \E k \in 1..(i - 1) : k \in SubjectMatchPositions)
              => returned = ConverseAt(i)

\* an older conclusion is about b, the latest is "No A are b", and the lookup
\* of " B" returned the converse of the latest
C16_Witness ==
    /\ Asked
    /\ query = <<" ", "B">>
    /\ Len(chain) = 2
    /\ 1 \in SubjectMatchPositions
    /\ ConvertibleAt(2)
    /\ Concl(2).quantifier = "No"
    /\ returned = ConverseAt(2)

\* the positions of the steps that can answer the lookup
UsablePositions == {i \in 1..Len(chain) : Usable(i)}

\* what the step at position i provides: its conclusion when that is about
\* the queried term, the converse of its conclusion otherwise
Yield(i) ==
    IF SubjectMatches(i) THEN Existing(i, Concl(i)) ELSE ConverseAt(i)

\* C17 as stated: the result is what the last-added usable step provides,
\* whatever older usable steps there are; without a usable step it is none.
C17_MostRecentWins ==
    Asked =>
        IF UsablePositions = {} THEN returned = None
        ELSE returned = Yield(Max(UsablePositions))

\* C17 amended: the same, for a queried term that is not blank; for a blank
\* one a conclusion whose matching term is the empty string is not usable.
C17_MostRecentWinsForNonBlank ==
    (Asked /\ NonBlankQuery) =>
        IF UsablePositions = {} THEN returned = None
        ELSE returned = Yield(Max(UsablePositions))

\* two different conclusions are about the queried term, and the lookup
\* returned the one added last
C17_Witness ==
    /\ Asked
    /\ query = <<"a">>
    /\ UsablePositions = {1, 2}
    /\ Concl(1) # Concl(2)
    /\ returned = Existing(2, Concl(2))

\* a lookup has been made with no subject, or with one that is empty once
\* surrounding whitespace is trimmed
AskedBlank == query # NoCall /\ (query = NoneStr \/ strip(query) = << >>)

\* C18: a lookup with an absent subject, or with a subject that is empty or
\* empty after trimming, returns none whatever the chain holds.
C18_BlankSubjectReturnsNone ==
    AskedBlank => returned = None

\* C19: the ledger is append-only: after any sequence of add_step and
\* get_proven_premise calls the chain holds exactly the steps that were
\* added, each as it was added, in the order of their addition; add_step puts
\* the new step last, and a lookup leaves the steps as they were.
C19_AppendOnly == chain = added

\* two different steps have been added and a lookup has answered from them
C19_Witness ==
    /\ Len(added) = 2
    /\ added[1] # added[2]
    /\ Asked
    /\ returned # None
    /\ chain = <<added[1], added[2]>>

\* ---------------------------------------------------------------------------
\* Claims about the text of a proposition
\* ---------------------------------------------------------------------------

\* str(shown) has been evaluated
Shown == rendered # NotRendered

\* the proposition is Statistical and carries no payload, or an empty one
LacksPayload(p) ==
    p.quantifier = "Statistical" /\ (p.stat_value = None \/ p.stat_value = << >>)

\* C20: rendering a proposition fails exactly when its quantifier is
\* Statistical and its stat_value is absent or empty; with All, No or Some the
\* text is "<Quantifier> <subject> are <predicate>", with Some...not it is
\* "Some <subject> are not <predicate>", and neither ever fails.
C20_RenderFailsOnlyWithoutPayload ==
    Shown =>
        /\ rendered.outcome = "ValueError" <=> LacksPayload(shown)
        /\ shown.quantifier \in {"All", "No", "Some"} =>
              rendered = Returned(shown.quantifier \o " " \o shown.subject
                                  \o " are " \o shown.predicate)
        /\ shown.quantifier = "Some...not" =>
              rendered = Returned("Some " \o shown.subject \o " are not "
                                  \o shown.predicate)

\* a Statistical proposition with an empty payload has been rendered, and
\* the rendering raised
C20_Witness ==
    /\ Shown
    /\ shown.quantifier = "Statistical"
    /\ shown.stat_value = << >>
    /\ shown.subject = "Dogs"
    /\ rendered.outcome = "ValueError"

\* ---------------------------------------------------------------------------
\* Claims about what validate leaves alone
\* ---------------------------------------------------------------------------

Markers == {MissingPremisesMarker, NoSyllogismMarker}

\* the number of engine markers in a summary
MarkerCount(summary) ==
    Cardinality({i \in 1..Len(summary) : summary[i] \in Markers})

\* the conclusion a step holds, None for a step without a syllogism
conclusion_of(s) == IF s.syllogism = None THEN None ELSE s.syllogism.conclusion

\* the validate call fails: a premise is missing or no row of the table fits
FailingCall ==
    /\ ValidateCall
    /\ \/ PremiseMissing(step)
       \/ MatchingRows(major_of(step), minor_of(step)) = {}

\* C24: no validate call changes a premise, step_id, question, reasoning_type
\* or the evidence list; a failing call changes only is_valid and summary,
\* the summary by appending one marker after the text it had (so each failing
\* call adds one marker), and leaves mood, confidence and conclusion alone.
C24_ValidateFrame ==
    [][ /\ ValidateCall =>
            /\ major_of(step') = major_of(step)
            /\ minor_of(step') = minor_of(step)
            /\ (step'.syllogism = None) = (step.syllogism = None)
            /\ step'.step_id = step.step_id
            /\ step'.question = step.question
            /\ step'.reasoning_type = step.reasoning_type
            /\ step'.rag_sources = step.rag_sources
        /\ FailingCall =>
            /\ step'.is_valid = FALSE
            /\ \E marker \in Markers :
                   step'.summary = step.summary \o <<" ", marker>>
            /\ MarkerCount(step'.summary) = MarkerCount(step.summary) + 1
            /\ step'.mood = step.mood
            /\ step'.confidence = step.confidence
            /\ conclusion_of(step') = conclusion_of(step)
            /\ step' = [step EXCEPT !.is_valid = FALSE, !.summary = step'.summary]
      ]_vars

\* two validate calls have failed on a step that carried a note, a mood, a
\* conclusion and half confidence: two markers follow the note and the rest
\* is as it was
C24_Witness ==
    /\ calls = 2
    /\ ~step.is_valid
    /\ major_of(step) = Proposition("All", "M", "S")
    /\ minor_of(step) = Proposition("All", "P", "X")
    /\ step.summary = <<"note", " ", NoSyllogismMarker, " ", NoSyllogismMarker>>
    /\ step.mood = StaleMood
    /\ step.confidence = FullConfidence \div 2
    /\ conclusion_of(step) = StaleConclusion

\* ---------------------------------------------------------------------------
\* Claims about the rule table as a whole
\* ---------------------------------------------------------------------------

\* quality and quantity of a proposition, by its quantifier
Negative(prop) == prop.quantifier \in {"No", "Some...not"}

Particular(prop) == prop.quantifier \in {"Some", "Some...not"}

\* validate has accepted the step's premises
Accepted == Validated /\ HasPremises(step) /\ step.is_valid

\* C26: every accepted syllogism obeys the rules of quality and quantity: not
\* both premises are negative, not both are particular, the conclusion is
\* negative exactly when one premise is, and the conclusion is particular
\* whenever a premise is.
C26_QualityAndQuantity ==
    Accepted =>
        LET major == major_of(step)
            minor == minor_of(step)
            concl == step.syllogism.conclusion
        IN  /\ ~(Negative(major) /\ Negative(minor))
            /\ ~(Particular(major) /\ Particular(minor))
            /\ Negative(concl) <=> (Negative(major) # Negative(minor))
            /\ (Particular(major) \/ Particular(minor)) => Particular(concl)

\* a syllogism with a negative major and a particular minor premise has been
\* accepted with a particular negative conclusion
C26_Witness ==
    /\ Accepted
    /\ major_of(step) = Proposition("No", "M", "P")
    /\ minor_of(step) = Proposition("Some", "S", "M")
    /\ step.syllogism.conclusion = Proposition("Some...not", "S", "P")
    /\ step.mood = "Ferio"

\* the terms of a proposition
TermsOf(prop) == {prop.subject, prop.predicate}

\* each premise has two different terms and the premises share exactly one
ProperPair(major, minor) ==
    /\ major.subject # major.predicate
    /\ minor.subject # minor.predicate
    /\ Cardinality(TermsOf(major) \cap TermsOf(minor)) = 1

\* the term a proper pair shares
MiddleTerm(major, minor) == CHOOSE t \in TermsOf(major) \cap TermsOf(minor) : TRUE

\* C27: for premises that each have two different terms and share exactly
\* one term, at most one rule's precondition holds, so the mood validate
\* reports is that of the one rule whatever the order of the table, and the
\* conclusion does not contain the shared term.
C27_ProperPairsMatchOneRule ==
    (HasPremises(step) /\ ProperPair(major_of(step), minor_of(step))) =>
        LET major == major_of(step)
            minor == minor_of(step)
        IN  /\ \A i \in MatchingRules(major, minor) :
                 \A j \in MatchingRules(major, minor) : i = j
            /\ (Validated /\ step.is_valid) =>
                 /\ MatchingRules(major, minor) = {tried}
                 /\ step.mood = mood_validators[tried]
                 /\ MiddleTerm(major, minor) \notin TermsOf(step.syllogism.conclusion)

\* No M are P, All S are M has been accepted as Celarent, concluding about S
\* and P
C27_Witness ==
    /\ Validated
    /\ step.is_valid
    /\ major_of(step) = Proposition("No", "M", "P")
    /\ minor_of(step) = Proposition("All", "S", "M")
    /\ ProperPair(major_of(step), minor_of(step))
    /\ MiddleTerm(major_of(step), minor_of(step)) = "M"
    /\ step.mood = "Celarent"
    /\ TermsOf(step.syllogism.conclusion) = {"S", "P"}

\* C28: after any sequence of validate calls on a step whose premises are
\* replaced or removed in between, the step has a mood and its syllogism a
\* conclusion only while is_valid is true.
C28_VerdictOnlyWhileValid ==
    (step.mood # NoMood \/ conclusion_of(step) # None) => step.is_valid

\* ---------------------------------------------------------------------------
\* Claims about the chain LogicFramework.reason returns
\* ---------------------------------------------------------------------------

\* reason() has returned; its chain is frame.chain
ReasonReturned == pc = "returned"

ReturnedSteps == IF ReasonReturned THEN frame.chain.steps ELSE << >>

\* the verdict the rule table gives the premises of step s is the one s holds
TableVerdict(s) ==
    /\ s.mood \in MoodNames
    /\ \E i \in MatchingRows(s.syllogism.major_premise, s.syllogism.minor_premise) :
          /\ s.mood = MoodTable[i].mood
          /\ s.syllogism.conclusion =
                RowConclusion(MoodTable[i], s.syllogism.major_premise,
                              s.syllogism.minor_premise)

\* C21: in every chain reason() returns, a Deductive step marked valid has a
\* registered mood name and the conclusion the rule table derives from the
\* step's own premises, and full confidence, as validate writes them.
C21_VerdictsFromValidate ==
    \A i \in 1..Len(ReturnedSteps) :
        (/\ ReturnedSteps[i].reasoning_type = "Deductive"
         /\ ReturnedSteps[i].syllogism # None
         /\ ReturnedSteps[i].is_valid)
        => /\ TableVerdict(ReturnedSteps[i])
           /\ ReturnedSteps[i].confidence = FullConfidence

\* a stage of the running call has raised (e is what str() of it gives)
Recovered == ReasonReturned /\ frame.e # NoText

LastStep(steps) == steps[Len(steps)]

\* C25: reason(query) returns a chain whose main_query is the query whatever
\* the stages do; when a stage raises (an out-of-range premise index
\* included) the call still returns: the steps appended before are kept in
\* order, an "Error Recovery" step with is_valid = false and confidence 0 is
\* the last step, and final_conclusion_summary says "Failed to reach
\* conclusion".
C25_ReasonAlwaysReturns ==
    [][ (pc # "idle" /\ pc # "returned") =>
          /\ pc' # "returned" => frame'.e = NoText
          /\ frame'.chain.main_query = frame.query
          /\ frame'.query = frame.query
          /\ SubSeq(frame'.chain.steps, 1, Len(frame.chain.steps)) = frame.chain.steps
          /\ frame'.e # NoText =>
                /\ pc' = "returned"
                /\ Len(frame'.chain.steps) = Len(frame.chain.steps) + 1
                /\ LastStep(frame'.chain.steps).question = "Error Recovery"
                /\ LastStep(frame'.chain.steps).is_valid = FALSE
                /\ LastStep(frame'.chain.steps).confidence = 0
                /\ frame'.chain.final_conclusion_summary =
                       "Failed to reach conclusion: " \o frame'.e
      ]_vars

\* the major premise index was out of range: the analysis and evidence steps
\* are followed by the Error Recovery step
C25_Witness ==
    /\ Recovered
    /\ frame.e = "list index out of range"
    /\ Len(frame.chain.steps) = 3
    /\ frame.chain.steps[1].question = "Query Analysis"
    /\ frame.chain.steps[2].question = "Evidence Retrieval"
    /\ frame.chain.steps[3].question = "Error Recovery"
    /\ frame.chain.final_conclusion_summary =
           "Failed to reach conclusion: list index out of range"

\* C29: in every chain reason() returns, the step_ids increase strictly along
\* the chain (so no two steps share one), whichever stages were skipped.
C29_StepIdsIncrease ==
    \A i \in 1..Len(ReturnedSteps) : \A j \in 1..Len(ReturnedSteps) :
        i < j => ReturnedSteps[i].step_id < ReturnedSteps[j].step_id


(***************************************************************************)
(* Claims about LLMResponseCache, stated over the history of set calls     *)
(* and the last get call.                                                  *)
(***************************************************************************)
\* the set calls made before the last get call, in order
SetsBeforeGet == SubSeq(stored, 1, got.after)
\* the positions of those set calls that used the key arguments of the get
SameArgs == {i \in 1..Len(SetsBeforeGet) : SetsBeforeGet[i].args = got.args}
LastSameArgs == CHOOSE i \in SameArgs : \A j \in SameArgs : j <= i
GetWithinTtl ==
    /\ got # NoGet
    /\ SameArgs # {}
    /\ ~(got.at - SetsBeforeGet[LastSameArgs].at > ttl)

\* C22: a get with the key arguments of an earlier set, made before that
\* entry's ttl has elapsed, returns the response that set stored, in every
\* cache state that set and get calls reach.
C22_GetReturnsWhatWasSet ==
    GetWithinTtl => got.value = SetsBeforeGet[LastSameArgs].response

\* C23: entries are told apart by the whole (prompt, provider, model,
\* schema_name) tuple: set calls with different tuples write different keys,
\* and a get returns only a response that was set under its own tuple.
C23_EntriesByFullTuple ==
    /\ \A i \in 1..Len(stored) : \A j \in 1..Len(stored) :
           stored[i].args # stored[j].args =>
               _generate_key(stored[i].args[1], stored[i].args[2],
                             stored[i].args[3], stored[i].args[4])
               # _generate_key(stored[j].args[1], stored[j].args[2],
                               stored[j].args[3], stored[j].args[4])
    /\ (got # NoGet /\ got.value # None) =>
           \E i \in SameArgs : SetsBeforeGet[i].response = got.value

\* C30: after any sequence of set and get calls the cache holds at most
\* maxsize entries.
C30_AtMostMaxsizeEntries == Len(cache) <= maxsize
====
